---- MODULE Spec2Model ----
(***************************************************************************)
(* Environment registry, overlay loader and field resolver of              *)
(* dataclass_wizard/environ/lookups.py.                                    *)
(*                                                                         *)
(* A name (environment variable name or field name) is a sequence of       *)
(* one-character strings, so that upper(), clean() and to_snake_case() are *)
(* computed character by character as the Python string methods do.        *)
(***************************************************************************)
EXTENDS Integers, Sequences, FiniteSets, TLC

VARIABLES
    name,               \* os.name: "posix" or "nt"
    environ,            \* os.environ: function from live names to values
    var_names,          \* cached value of Env.var_names
    var_names_cached,   \* whether Env.var_names has been materialized
    cleaned_to_env,     \* cached value of Env.cleaned_to_env
    accessed,           \* Env._accessed_cleaned_to_env
    last,               \* the last call made and what it returned
    pc,                 \* position of a reload that runs step by step
    new_vars,           \* local `new_vars` of that reload
    todo,               \* names the generator of line 46 has yet to yield
    err,                \* the error object under construction or inspection
    eop                 \* the last operation on it: its input, the message read

\* the registry, and what runs on it
lvars == <<name, environ, var_names, var_names_cached, cleaned_to_env,
           accessed, last, pc, new_vars, todo>>

\* the error object
evars == <<err, eop>>

vars == <<lvars, evars>>

-----------------------------------------------------------------------------
(* Bounds and universes *)

\* most keys of a mapping passed to update_with_dotenv
MaxOverlay == 2

\* longest collection of names passed to lookup_exact
MaxList == 2

\* variable names of a case-preserving platform: a_b, A_B, aB
MixedNames == { <<"a", "_", "b">>, <<"A", "_", "B">>, <<"a", "B">> }

\* field names handed to the lookups: a_b, aB, a-b, c
Fields == { <<"a", "_", "b">>, <<"a", "B">>, <<"a", "-", "b">>, <<"c">> }

\* names put in a collection passed to lookup_exact: a_b, A_B
ListNames == { <<"a", "_", "b">>, <<"A", "_", "B">> }

\* values of variables; the empty string is a value
Values == { "", "x" }

-----------------------------------------------------------------------------
(* Strings *)

\* str.upper() on one character
UpperChar(c) ==
    CASE c = "a" -> "A"
      [] c = "b" -> "B"
      [] c = "c" -> "C"
      [] OTHER   -> c

\* str.lower() on one character
LowerChar(c) ==
    CASE c = "A" -> "a"
      [] c = "B" -> "b"
      [] c = "C" -> "c"
      [] OTHER   -> c

IsUpperChar(c) == c \in {"A", "B", "C"}

upper(s) == [i \in 1..Len(s) |-> UpperChar(s[i])]

lower(s) == [i \in 1..Len(s) |-> LowerChar(s[i])]

\* s.replace(ch, '') for a one-character ch
replace(s, ch) == SelectSeq(s, LAMBDA c : c # ch)

\* clean(s): s.replace('-', '').replace('_', '').lower()
clean(s) == lower(replace(replace(s, "-"), "_"))

\* to_snake_case(s): camel/Pascal boundaries (an upper-case letter after a
\* lower-case one) become "_"-separated, and the result is lower-cased
RECURSIVE SnakeFrom(_, _)
SnakeFrom(s, i) ==
    IF i > Len(s) THEN <<>>
    ELSE LET boundary == /\ i > 1
                         /\ IsUpperChar(s[i])
                         /\ ~IsUpperChar(s[i - 1])
                         /\ s[i - 1] \notin {"_", "-"}
         IN (IF boundary THEN <<"_">> ELSE <<>>)
              \o <<LowerChar(s[i])>> \o SnakeFrom(s, i + 1)

to_snake_case(s) == SnakeFrom(s, 1)

-----------------------------------------------------------------------------
(* Platform and results *)

\* names a variable can have on the platform: on nt they are upper-case
PlatformNames(os) ==
    IF os = "nt" THEN { upper(n) : n \in MixedNames } ELSE MixedNames

\* a lookup returns a str, the MISSING sentinel, or raises KeyError
Found(v) == [tag |-> "str", val |-> v]
MISSING  == [tag |-> "MISSING", val |-> ""]
KeyError == [tag |-> "KeyError", val |-> ""]
NoRet    == [tag |-> "none", val |-> ""]

\* environ.get(key) or MISSING: an empty value taken for an absent one
EnvGetTruthy(env, key) ==
    IF key \in DOMAIN env /\ env[key] # "" THEN Found(env[key])
    ELSE IF key \in DOMAIN env THEN MISSING ELSE KeyError

\* environ[key]
EnvGet(env, key) ==
    IF key \in DOMAIN env THEN Found(env[key]) ELSE KeyError

\* environ[key] = value
EnvPut(env, key, value) ==
    [k \in DOMAIN env \cup {key} |-> IF k = key THEN value ELSE env[k]]

\* del environ[key]
EnvDel(env, key) == [k \in DOMAIN env \ {key} |-> env[k]]

\* environ.update(m) for a dict m: its keys are distinct, every one is set
EnvUpdate(env, m) ==
    [k \in DOMAIN env \cup DOMAIN m |-> IF k \in DOMAIN m THEN m[k] ELSE env[k]]

\* the dicts of at most MaxOverlay keys over the platform's names
Overlays(os) ==
    UNION { [D -> Values] :
              D \in { E \in SUBSET PlatformNames(os) : Cardinality(E) <= MaxOverlay } }

-----------------------------------------------------------------------------
(* Env: the registry *)

\* os.environ scanned on every access: no cache
VarNamesRescanned == DOMAIN environ

\* Env.var_names: the cached set, materialized from os.environ on first access
VarNames == IF var_names_cached THEN var_names ELSE DOMAIN environ

\* new_vars = set(env): the names already known are not taken out
NewVarsAll(env_keys, env_vars) == env_keys

\* line 38: new_vars = set(env) - env_vars
NewVars(env_keys, env_vars) == env_keys \ env_vars

\* env_vars = new_vars: the cache replaced instead of extended
UpdatedNamesReplaced(env_vars, nv) == nv

\* line 41: env_vars.update(new_vars)
UpdatedNames(env_vars, nv) == env_vars \cup nv

\* one step of dict.update: idx[clean(var)] = var
CleanedPut(idx, var) ==
    [k \in DOMAIN idx \cup {clean(var)} |-> IF k = clean(var) THEN var ELSE idx[k]]

\* the index left as it is: the update of lines 45-47 skipped
CleanedNotUpdated(idx, nv) == {idx}

\* lines 45-47: the dicts idx.update((clean(var), var) for var in nv) can
\* leave; nv is a set, iterated in an order the code does not control, and the
\* last name written under a key stays
CleanedUpdates(idx, nv) ==
    LET newkeys == { clean(v) : v \in nv }
    IN { g \in [DOMAIN idx \cup newkeys -> DOMAIN [k \in nv |-> k] \cup
                                           { idx[k] : k \in DOMAIN idx }] :
           \A k \in DOMAIN g :
               IF k \in newkeys THEN g[k] \in nv /\ clean(g[k]) = k
               ELSE g[k] = idx[k] }

\* {var: var for var in cls.var_names}: the key not normalized
CleanedBuildsUncleaned(names) == { [n \in names |-> n] }

\* line 86: {clean(var): var for var in cls.var_names}
CleanedBuilds(names) == CleanedUpdates(<<>>, names)

\* the dicts Env.cleaned_to_env can evaluate to: the cached one, or one built now
CleanedToEnv(names) ==
    IF accessed THEN {cleaned_to_env} ELSE CleanedBuilds(names)

-----------------------------------------------------------------------------
(* Lookups.  Each returns [ret, used]: the value returned (or KeyError) and   *)
(* whether Env.cleaned_to_env was evaluated on the way.                      *)

Direct(r)  == [ret |-> r, used |-> FALSE]
Cleaned(r) == [ret |-> r, used |-> TRUE]

\* lines 98-108
try_cleaned(key, idx, env) ==
    LET k == clean(key)
    IN Cleaned(IF k \in DOMAIN idx THEN EnvGet(env, idx[k]) ELSE MISSING)

\* lines 113-131, the str branch (os.name = 'nt')
lookup_exact_nt(var, names, env) ==
    LET v == upper(var)
    IN Direct(IF v \in names THEN EnvGet(env, v) ELSE MISSING)

\* lines 135-149, the str branch
lookup_exact_posix(var, names, env) ==
    Direct(IF var \in names THEN EnvGet(env, var) ELSE MISSING)

\* lines 124-129, the collection branch (os.name = 'nt')
RECURSIVE lookup_exact_nt_collection(_, _, _)
lookup_exact_nt_collection(var, names, env) ==
    IF var = <<>> THEN Direct(MISSING)
    ELSE LET v == upper(Head(var))
         IN IF v \in names THEN Direct(EnvGet(env, v))
            ELSE lookup_exact_nt_collection(Tail(var), names, env)

\* the loop without its return: the last known name wins
RECURSIVE lookup_exact_last_known(_, _, _)
lookup_exact_last_known(var, names, env) ==
    IF var = <<>> THEN Direct(MISSING)
    ELSE LET rest == lookup_exact_last_known(Tail(var), names, env)
         IN IF rest.ret # MISSING \/ Head(var) \notin names THEN rest
            ELSE Direct(EnvGet(env, Head(var)))

\* lines 144-147, the collection branch
RECURSIVE lookup_exact_posix_collection(_, _, _)
lookup_exact_posix_collection(var, names, env) ==
    IF var = <<>> THEN Direct(MISSING)
    ELSE LET v == Head(var)
         IN IF v \in names THEN Direct(EnvGet(env, v))
            ELSE lookup_exact_posix_collection(Tail(var), names, env)

\* lines 111, 133 for a collection: the definition the platform selects
lookup_exact_collection(var, names, env) ==
    IF name = "nt" THEN lookup_exact_nt_collection(var, names, env)
    ELSE lookup_exact_posix_collection(var, names, env)

\* the nt definition selected on every platform
lookup_exact_upper(var, names, env) == lookup_exact_nt(var, names, env)

\* lines 111, 133: the definition the platform selects
lookup_exact(var, names, env) ==
    IF name = "nt" THEN lookup_exact_nt(var, names, env)
    ELSE lookup_exact_posix(var, names, env)

\* the literal name tried before the upper-cased one
screaming_literal_first(field_name, names, idx, env) ==
    LET upper_key == upper(field_name)
    IN IF field_name \in names THEN Direct(EnvGet(env, field_name))
       ELSE IF upper_key \in names THEN Direct(EnvGet(env, upper_key))
       ELSE try_cleaned(field_name, idx, env)

\* lines 152-176
with_screaming_snake_case(field_name, names, idx, env) ==
    LET upper_key == upper(field_name)
    IN IF upper_key \in names THEN Direct(EnvGet(env, upper_key))
       ELSE IF field_name \in names THEN Direct(EnvGet(env, field_name))
       ELSE try_cleaned(field_name, idx, env)

\* the upper-cased name tried before the literal one
snake_upper_first(field_name, names, idx, env) ==
    LET upper_key == upper(field_name)
    IN IF upper_key \in names THEN Direct(EnvGet(env, upper_key))
       ELSE IF field_name \in names THEN Direct(EnvGet(env, field_name))
       ELSE try_cleaned(field_name, idx, env)

\* lines 179-201
with_snake_case(field_name, names, idx, env) ==
    LET upper_key == upper(field_name)
    IN IF field_name \in names THEN Direct(EnvGet(env, field_name))
       ELSE IF upper_key \in names THEN Direct(EnvGet(env, upper_key))
       ELSE try_cleaned(field_name, idx, env)

\* the snake-cased name tried before its upper-cased form
pascal_lower_first(field_name, names, idx, env) ==
    LET snake_key == to_snake_case(field_name)
        upper_key == upper(snake_key)
    IN IF field_name \in names THEN Direct(EnvGet(env, field_name))
       ELSE IF snake_key \in names THEN Direct(EnvGet(env, snake_key))
       ELSE IF upper_key \in names THEN Direct(EnvGet(env, upper_key))
       ELSE try_cleaned(field_name, idx, env)

\* lines 204-232
with_pascal_or_camel_case(field_name, names, idx, env) ==
    LET snake_key == to_snake_case(field_name)
        upper_key == upper(snake_key)
    IN IF field_name \in names THEN Direct(EnvGet(env, field_name))
       ELSE IF upper_key \in names THEN Direct(EnvGet(env, upper_key))
       ELSE IF snake_key \in names THEN Direct(EnvGet(env, snake_key))
       ELSE try_cleaned(field_name, idx, env)

-----------------------------------------------------------------------------
(* The diagnostics of errors.py: values *)

\* Python's None, among values written as strings
PyNone == "<None>"

\* classes, as the values handed to the constructors
Classes == {"cls:A", "cls:B"}

\* type_name(cls): the bare name of the class
type_name(cls) ==
    CASE cls = "cls:A"   -> "A"
      [] cls = "cls:B"   -> "B"
      [] cls = "cls:str" -> "str"
      [] OTHER           -> cls

\* bool(v) for the values used here: None, '' and the empty dict are falsy
Truthy(v) == v \notin {PyNone, "", "{}"}

\* normalize(s): drop '-' and '_', then lower-case
normalize(s) == lower(replace(replace(s, "-"), "_"))

\* a plain value of the debug context, and the text json.dumps makes
Val(v) == [how |-> "value", v |-> v]
JsonDumps(v) == [how |-> "json.dumps", v |-> v]

\* a dict keeps insertion order: a sequence of <<key, value>> with distinct keys
DictKeys(d) == { d[i][1] : i \in DOMAIN d }
DictGet(d, k) == d[CHOOSE i \in DOMAIN d : d[i][1] = k][2]
DictSet(d, k, v) ==
    IF k \in DictKeys(d)
       THEN [i \in DOMAIN d |-> IF d[i][1] = k THEN <<k, v>> ELSE d[i]]
       ELSE Append(d, <<k, v>>)

Range(s) == { s[i] : i \in DOMAIN s }

\* [f(x) for x in s]
RECURSIVE Names(_)
Names(fs) == IF fs = <<>> THEN <<>> ELSE <<Head(fs).name>> \o Names(Tail(fs))

\* an error object: every kind carries every attribute, unused ones stay blank
NoError ==
    [kind |-> "none",
     class_name |-> PyNone, _class_name |-> PyNone,
     _default_class_name |-> PyNone, _field_name |-> PyNone,
     _json_object |-> PyNone, nested_class_name |-> PyNone,
     json_key |-> PyNone, ann_type |-> PyNone,
     obj |-> <<>>, fields |-> <<>>, missing_fields |-> <<>>,
     extra_kwargs |-> <<>>, kwargs |-> <<>>,
     prefix |-> [verb |-> "", n |-> 0, noun |-> ""],
     def_resolution |-> <<>>, init_resolution |-> <<>>]

\* the arguments of a constructor call: one shape for every kind
NoArgs ==
    [kind |-> "none", cls |-> PyNone, ann_type |-> PyNone,
     _default_class |-> PyNone, _field_name |-> PyNone,
     _json_object |-> PyNone, kwargs |-> <<>>,
     obj |-> <<>>, cls_kwargs |-> <<>>, cls_fields |-> <<>>,
     json_key |-> PyNone, extra_kwargs |-> <<>>, field_names |-> <<>>,
     missing_vars |-> <<>>]

\* a message: the template, the values formatted into it, and one line per
\* entry of the debug context, each value shown with str() or with repr()
Message(template, args, fmt, parts) ==
    [template |-> template, args |-> args, fmt |-> fmt, parts |-> parts]

NoMessage == Message("none", <<>>, "", <<>>)

\* an operation on the error object: the constructor's arguments, the value
\* assigned by a setter, the message read
Op(op, args, val, msg) == [op |-> op, args |-> args, val |-> val, msg |-> msg]

-----------------------------------------------------------------------------
(* State machine *)

Call(op, field, keys, overlay, ret, rep) ==
    [op |-> op, field |-> field, keys |-> keys, overlay |-> overlay,
     ret |-> ret, rep |-> rep]

Init ==
    /\ name \in {"posix", "nt"}
    /\ environ \in UNION { [D -> Values] : D \in SUBSET PlatformNames(name) }
    /\ var_names = {}
    /\ var_names_cached = FALSE
    /\ cleaned_to_env = <<>>
    /\ accessed = FALSE
    /\ last = Call("init", <<>>, {}, <<>>, NoRet, FALSE)
    /\ pc = "idle"
    /\ new_vars = {}
    /\ todo = {}
    /\ err = NoError
    /\ eop = Op("init", NoArgs, PyNone, NoMessage)

Idle == pc = "idle" /\ UNCHANGED <<pc, new_vars, todo>>

\* the state after a lookup: the caches it touched are materialized
Looked(op, field_name, names, idx, r) ==
    /\ var_names' = names
    /\ var_names_cached' = TRUE
    /\ cleaned_to_env' = IF r.used THEN idx ELSE cleaned_to_env
    /\ accessed' = (accessed \/ r.used)
    /\ UNCHANGED evars
    /\ last' = Call(op, field_name, {}, <<>>, r.ret, FALSE)
    /\ UNCHANGED <<name, environ, pc, new_vars, todo>>

\* names(): Env.var_names
GetVarNames ==
    /\ var_names' = VarNames
    /\ var_names_cached' = TRUE
    /\ UNCHANGED evars
    /\ last' = Call("names", <<>>, {}, <<>>, NoRet, FALSE)
    /\ UNCHANGED <<name, environ, cleaned_to_env, accessed, pc, new_vars, todo>>

\* cleaned_index(): Env.cleaned_to_env
GetCleaned ==
    /\ \E idx \in CleanedToEnv(VarNames) :
          /\ cleaned_to_env' = idx
          /\ accessed' = TRUE
    /\ var_names' = VarNames
    /\ var_names_cached' = TRUE
    /\ UNCHANGED evars
    /\ last' = Call("cleaned_index", <<>>, {}, <<>>, NoRet, FALSE)
    /\ UNCHANGED <<name, environ, pc, new_vars, todo>>

\* the index extended by every reload, built or not
AlwaysUpdateCleaned == TRUE

\* line 44: if cls._accessed_cleaned_to_env
ShouldUpdateCleaned == accessed

\* Env.reload(env), whole: lines 37-47
ReloadBody(op, env_keys, overlay) ==
    LET env_vars == VarNames
        nv == NewVars(env_keys, env_vars)
    IN /\ var_names' = UpdatedNames(env_vars, nv)
       /\ var_names_cached' = TRUE
       /\ IF ShouldUpdateCleaned
            THEN cleaned_to_env' \in CleanedUpdates(cleaned_to_env, nv)
            ELSE cleaned_to_env' = cleaned_to_env
       /\ accessed' = accessed
       /\ UNCHANGED evars
       /\ last' = Call(op, <<>>, env_keys, overlay, NoRet,
                       op = "reload" /\ last.op = "reload" /\ last.keys = env_keys)

\* Env.reload(): the default argument is os.environ
Reload ==
    /\ Idle
    /\ ReloadBody("reload", DOMAIN environ, <<>>)
    /\ UNCHANGED <<name, environ>>

\* Env.reload(env) with a mapping of the caller
ReloadWith ==
    /\ Idle
    /\ \E env_keys \in SUBSET PlatformNames(name) :
          ReloadBody("reload", env_keys, <<>>)
    /\ UNCHANGED <<name, environ>>

\* Env.update_with_dotenv(dotenv_values=...): lines 72-80
UpdateWithDotenv ==
    /\ Idle
    /\ \E dotenv_values \in Overlays(name) :
          /\ ReloadBody("update_with_dotenv", DOMAIN dotenv_values, dotenv_values)
          /\ environ' = EnvUpdate(environ, dotenv_values)
    /\ UNCHANGED name

\* the live environment changes out of band: os.environ[k] = v
SetEnv ==
    /\ \E k \in PlatformNames(name), v \in Values :
          environ' = EnvPut(environ, k, v)
    /\ UNCHANGED evars
    /\ last' = Call("setenv", <<>>, {}, <<>>, NoRet, FALSE)
    /\ UNCHANGED <<name, var_names, var_names_cached, cleaned_to_env, accessed,
                   pc, new_vars, todo>>

\* the live environment shrinks: del os.environ[k]
DelEnv ==
    /\ \E k \in DOMAIN environ : environ' = EnvDel(environ, k)
    /\ UNCHANGED evars
    /\ last' = Call("delenv", <<>>, {}, <<>>, NoRet, FALSE)
    /\ UNCHANGED <<name, var_names, var_names_cached, cleaned_to_env, accessed,
                   pc, new_vars, todo>>

LookupExact ==
    \E f \in Fields :
        Looked("lookup_exact", f, VarNames, cleaned_to_env,
               lookup_exact(f, VarNames, environ))

\* lookup_exact with a list or tuple of names
LookupExactCollection ==
    \E var \in UNION { [1..n -> ListNames] : n \in 0..MaxList } :
        Looked("lookup_exact_collection", var, VarNames, cleaned_to_env,
               lookup_exact_collection(var, VarNames, environ))

TryCleaned ==
    \E f \in Fields : \E idx \in CleanedToEnv(VarNames) :
        Looked("try_cleaned", f, VarNames, idx, try_cleaned(f, idx, environ))

WithScreamingSnakeCase ==
    \E f \in Fields : \E idx \in CleanedToEnv(VarNames) :
        Looked("with_screaming_snake_case", f, VarNames, idx,
               with_screaming_snake_case(f, VarNames, idx, environ))

WithSnakeCase ==
    \E f \in Fields : \E idx \in CleanedToEnv(VarNames) :
        Looked("with_snake_case", f, VarNames, idx,
               with_snake_case(f, VarNames, idx, environ))

WithPascalOrCamelCase ==
    \E f \in Fields : \E idx \in CleanedToEnv(VarNames) :
        Looked("with_pascal_or_camel_case", f, VarNames, idx,
               with_pascal_or_camel_case(f, VarNames, idx, environ))

Next ==
    \/ GetVarNames
    \/ GetCleaned
    \/ Reload
    \/ ReloadWith
    \/ UpdateWithDotenv
    \/ SetEnv
    \/ DelEnv
    \/ LookupExact
    \/ LookupExactCollection
    \/ TryCleaned
    \/ WithScreamingSnakeCase
    \/ WithSnakeCase
    \/ WithPascalOrCamelCase

Spec == Init /\ [][Next]_vars

-----------------------------------------------------------------------------
(* Env.reload step by step, with readers running between its steps *)

\* lines 37-38: env_vars = cls.var_names; new_vars = set(env) - env_vars
ReloadStart ==
    /\ pc = "idle"
    /\ \E env_keys \in SUBSET PlatformNames(name) :
          new_vars' = NewVars(env_keys, VarNames)
    /\ var_names' = VarNames
    /\ var_names_cached' = TRUE
    /\ pc' = "update_names"
    /\ UNCHANGED evars
    /\ last' = Call("reload", <<>>, {}, <<>>, NoRet, FALSE)
    /\ UNCHANGED <<name, environ, cleaned_to_env, accessed, todo>>

\* line 41: env_vars.update(new_vars)
ReloadUpdateNames ==
    /\ pc = "update_names"
    /\ var_names' = UpdatedNames(var_names, new_vars)
    /\ pc' = "check"
    /\ UNCHANGED evars
    /\ last' = Call("reload", <<>>, {}, <<>>, NoRet, FALSE)
    /\ UNCHANGED <<name, environ, var_names_cached, cleaned_to_env, accessed,
                   new_vars, todo>>

\* line 44: if cls._accessed_cleaned_to_env
ReloadCheck ==
    /\ pc = "check"
    /\ IF accessed /\ new_vars # {}
         THEN pc' = "update_cleaned" /\ todo' = new_vars
         ELSE pc' = "idle" /\ todo' = {}
    /\ new_vars' = {}
    /\ UNCHANGED evars
    /\ last' = Call("reload", <<>>, {}, <<>>, NoRet, FALSE)
    /\ UNCHANGED <<name, environ, var_names, var_names_cached, cleaned_to_env,
                   accessed>>

\* lines 45-47: the generator yields one (clean(var), var), update stores it
ReloadUpdateCleaned ==
    /\ pc = "update_cleaned"
    /\ \E var \in todo :
          /\ cleaned_to_env' = CleanedPut(cleaned_to_env, var)
          /\ todo' = todo \ {var}
          /\ pc' = IF todo = {var} THEN "idle" ELSE "update_cleaned"
    /\ UNCHANGED evars
    /\ last' = Call("reload", <<>>, {}, <<>>, NoRet, FALSE)
    /\ UNCHANGED <<name, environ, var_names, var_names_cached, accessed, new_vars>>

NextConc ==
    \/ ReloadStart
    \/ ReloadUpdateNames
    \/ ReloadCheck
    \/ ReloadUpdateCleaned
    \/ GetVarNames
    \/ GetCleaned
    \/ TryCleaned
    \/ WithScreamingSnakeCase

SpecConc == Init /\ [][NextConc]_vars

-----------------------------------------------------------------------------
(* The diagnostics of errors.py: ParseError and its set-once attributes *)

\* what a caller may pass as extra keyword arguments (the debug context)
CallerKwargs ==
    { <<>>,
      << <<"note", Val("n")>> >>,
      << <<"json_object", Val("old")>>, <<"note", Val("n")>> >>,
      << <<"resolution", Val("mine")>>, <<"note", Val("n")>> >> }

FieldNameValues == {PyNone, "", "f", "g"}
JsonObjectValues == {PyNone, "{}", "{a}", "{b}"}

\* ParseError.__init__
ParseError_init(ann_type, _default_class, _field_name, _json_object, kwargs) ==
    [NoError EXCEPT
        !.kind = "ParseError",
        !.ann_type = ann_type,
        !.kwargs = kwargs,
        !._class_name = PyNone,
        !._default_class_name =
            IF Truthy(_default_class) THEN type_name(_default_class) ELSE PyNone,
        !._field_name = _field_name,
        !._json_object = _json_object]

\* the getter: self._class_name or self._default_class_name
class_name(e) ==
    IF Truthy(e._class_name) THEN e._class_name ELSE e._default_class_name

\* a setter without its guard: every assignment takes effect
SetAlways(cur, new) == new

\* the body of the three setters: assign only while the attribute is None
SetOnce(cur, new) == IF cur = PyNone THEN new ELSE cur

\* what reading ParseError.message leaves in self.kwargs
ParseError_kwargs(e) ==
    IF Truthy(e._json_object)
       THEN DictSet(e.kwargs, "json_object", JsonDumps(e._json_object))
       ELSE e.kwargs

\* the text ParseError.message returns
ParseError_message(e) ==
    Message("ParseError",
            <<e._field_name, class_name(e), type_name(e.ann_type),
              type_name("cls:str"), "o", "e">>,
            "repr", ParseError_kwargs(e))

\* the constructor arguments of err are drawn, and err is not yet built
Drawn(kind) == eop.op = "args" /\ eop.args.kind = kind

ParseErrorArgs ==
    { [NoArgs EXCEPT !.kind = "ParseError", !.ann_type = "cls:A",
                     !._default_class = dc, !._field_name = fn,
                     !._json_object = jo, !.kwargs = kw] :
        dc \in Classes \cup {PyNone}, fn \in {PyNone, "", "f"},
        jo \in {PyNone, "{}", "{a}"}, kw \in CallerKwargs }

NewParseError ==
    /\ Drawn("ParseError")
    /\ err' = ParseError_init(eop.args.ann_type, eop.args._default_class,
                              eop.args._field_name, eop.args._json_object,
                              eop.args.kwargs)
    /\ eop' = Op("ParseError", eop.args, PyNone, NoMessage)
    /\ UNCHANGED lvars

IsParseError == err.kind \in {"ParseError", "MissingData"}

SetClassName ==
    /\ IsParseError
    /\ \E cls \in Classes :
          /\ err' = [err EXCEPT !._class_name = SetOnce(@, type_name(cls))]
          /\ eop' = Op("set_class_name", eop.args, cls, NoMessage)
    /\ UNCHANGED lvars

SetFieldName ==
    /\ IsParseError
    /\ \E v \in FieldNameValues :
          /\ err' = [err EXCEPT !._field_name = SetOnce(@, v)]
          /\ eop' = Op("set_field_name", eop.args, v, NoMessage)
    /\ UNCHANGED lvars

SetJsonObject ==
    /\ IsParseError
    /\ \E v \in JsonObjectValues :
          /\ err' = [err EXCEPT !._json_object = SetOnce(@, v)]
          /\ eop' = Op("set_json_object", eop.args, v, NoMessage)
    /\ UNCHANGED lvars

-----------------------------------------------------------------------------
(* The diagnostics of errors.py: the other kinds *)

MaxFields == 2
MaxKeys == 1
MaxVars == 2

\* field and key names: "a_b" and "aB" normalize to the same "ab"
ErrNames == { <<"a", "_", "b">>, <<"a", "B">>, <<"c">> }

\* sequences of at most n distinct members of S
DistinctSeqs(S, n) ==
    { s \in UNION { [1..k -> S] : k \in 0..n } :
        \A i, j \in DOMAIN s : i # j => s[i] # s[j] }

\* dataclasses.Field: a name, a default and a default factory, the last two
\* never both given
FieldDecls ==
    { f \in [name : ErrNames, default : {"MISSING", "0"},
             default_factory : {"MISSING", "list"}] :
        f.default = "MISSING" \/ f.default_factory = "MISSING" }

\* the fields of a dataclass, in declaration order
ClsFields(n) ==
    { s \in UNION { [1..k -> FieldDecls] : k \in 0..n } :
        \A i, j \in DOMAIN s : i # j => s[i].name # s[j].name }

\* the keys of a dict, in insertion order
Keys == DistinctSeqs(ErrNames, MaxKeys)

\* a mutant of MissingFieldNames: a default factory does not excuse a field
MissingIgnoringFactory(cls_fields, fields) ==
    Names(SelectSeq(cls_fields, LAMBDA f :
        /\ f.name \notin Range(fields)
        /\ f.default = "MISSING"))

\* a mutant of MissingFieldNames: names are compared in normalized form
MissingByNormalizedName(cls_fields, fields) ==
    Names(SelectSeq(cls_fields, LAMBDA f :
        /\ normalize(f.name) \notin { normalize(k) : k \in Range(fields) }
        /\ f.default = "MISSING"
        /\ f.default_factory = "MISSING"))

\* [f.name for f in cls_fields if f.name not in self.fields
\*    and f.default is MISSING and f.default_factory is MISSING]
MissingFieldNames(cls_fields, fields) ==
    Names(SelectSeq(cls_fields, LAMBDA f :
        /\ f.name \notin Range(fields)
        /\ f.default = "MISSING"
        /\ f.default_factory = "MISSING"))

\* next((f for f in missing_fields if normalize(f) in normalized_json_keys), None)
KeyTransformSuspected(missing_fields, obj) ==
    \E f \in Range(missing_fields) :
        normalize(f) \in { normalize(key) : key \in Range(obj) }

KeyTransformHint == Val("key_transform()")
ResolutionHint == Val("issue 54")

\* MissingFields.__init__
MissingFields_init(obj, cls, cls_kwargs, cls_fields, kwargs) ==
    LET fields == cls_kwargs
        missing_fields == MissingFieldNames(cls_fields, fields)
    IN  [NoError EXCEPT
            !.kind = "MissingFields",
            !.obj = obj,
            !.fields = fields,
            !.missing_fields = missing_fields,
            !.kwargs =
                IF KeyTransformSuspected(missing_fields, obj)
                   THEN DictSet(DictSet(kwargs, "key transform", KeyTransformHint),
                                "resolution", ResolutionHint)
                   ELSE kwargs,
            !.class_name = type_name(cls)]

MissingFields_message(e) ==
    Message("MissingFields",
            <<e.class_name, e.fields, e.missing_fields, JsonDumps(e.obj), "e">>,
            "str", e.kwargs)

MissingFieldsArgs ==
    { [NoArgs EXCEPT !.kind = "MissingFields", !.cls = "cls:A", !.obj = obj,
                     !.cls_kwargs = ck, !.cls_fields = cf, !.kwargs = kw] :
        obj \in Keys, ck \in Keys, cf \in ClsFields(MaxFields),
        kw \in CallerKwargs }

NewMissingFields ==
    /\ Drawn("MissingFields")
    /\ err' = MissingFields_init(eop.args.obj, eop.args.cls, eop.args.cls_kwargs,
                                 eop.args.cls_fields, eop.args.kwargs)
    /\ eop' = Op("MissingFields", eop.args, PyNone, NoMessage)
    /\ UNCHANGED lvars

\* ExtraData.__init__
ExtraData_init(cls, extra_kwargs, field_names) ==
    [NoError EXCEPT
        !.kind = "ExtraData",
        !.class_name = type_name(cls),
        !.extra_kwargs = extra_kwargs,
        !.fields = field_names]

ExtraData_message(e) ==
    Message("ExtraData", <<e.class_name, e.extra_kwargs, e.fields>>, "", <<>>)

ExtraDataArgs ==
    { [NoArgs EXCEPT !.kind = "ExtraData", !.cls = "cls:A",
                     !.extra_kwargs = ek, !.field_names = fns] :
        ek \in Keys \ {<<>>}, fns \in Keys }

NewExtraData ==
    /\ Drawn("ExtraData")
    /\ err' = ExtraData_init(eop.args.cls, eop.args.extra_kwargs,
                             eop.args.field_names)
    /\ eop' = Op("ExtraData", eop.args, PyNone, NoMessage)
    /\ UNCHANGED lvars

\* UnknownJSONKey.__init__
UnknownJSONKey_init(json_key, obj, cls, cls_fields, kwargs) ==
    [NoError EXCEPT
        !.kind = "UnknownJSONKey",
        !.json_key = json_key,
        !.obj = obj,
        !.fields = Names(cls_fields),
        !.kwargs = kwargs,
        !.class_name = type_name(cls)]

UnknownJSONKey_message(e) ==
    Message("UnknownJSONKey",
            <<e.class_name, e.json_key, e.fields, JsonDumps(e.obj)>>,
            "repr", e.kwargs)

UnknownJSONKeyArgs ==
    { [NoArgs EXCEPT !.kind = "UnknownJSONKey", !.cls = "cls:A",
                     !.json_key = "k", !.obj = obj, !.cls_fields = cf,
                     !.kwargs = kw] :
        obj \in Keys \ {<<>>}, cf \in ClsFields(1), kw \in CallerKwargs }

NewUnknownJSONKey ==
    /\ Drawn("UnknownJSONKey")
    /\ err' = UnknownJSONKey_init(eop.args.json_key, eop.args.obj, eop.args.cls,
                                  eop.args.cls_fields, eop.args.kwargs)
    /\ eop' = Op("UnknownJSONKey", eop.args, PyNone, NoMessage)
    /\ UNCHANGED lvars

\* MissingData.__init__: ParseError.__init__(self, None, nested_cls, **kwargs)
MissingData_init(nested_cls, _default_class, _field_name, _json_object, kwargs) ==
    [ParseError_init(nested_cls, _default_class, _field_name, _json_object,
                     kwargs)
        EXCEPT !.kind = "MissingData",
               !.nested_class_name = type_name(nested_cls)]

MissingData_message(e) ==
    Message("MissingData",
            <<class_name(e), e._field_name, e.nested_class_name>>,
            "repr", e.kwargs)

MissingDataArgs ==
    { [NoArgs EXCEPT !.kind = "MissingData", !.ann_type = "cls:B",
                     !._default_class = dc, !._field_name = fn,
                     !._json_object = jo, !.kwargs = kw] :
        dc \in {PyNone, "cls:A"}, fn \in {PyNone, "f"},
        jo \in {PyNone, "{a}"}, kw \in CallerKwargs }

NewMissingData ==
    /\ Drawn("MissingData")
    /\ err' = MissingData_init(eop.args.ann_type, eop.args._default_class,
                               eop.args._field_name, eop.args._json_object,
                               eop.args.kwargs)
    /\ eop' = Op("MissingData", eop.args, PyNone, NoMessage)
    /\ UNCHANGED lvars

\* the (name, type, default) triples MissingVars is told about
VarTriples == { <<"x", "str", "''">>, <<"y", "int", "0">> }

\* f'There are {N} required fields' / f'There is {N} required field'
Prefix(verb, n, noun) == [verb |-> verb, n |-> n, noun |-> noun]

\* MissingVars.__init__: the lines of fields and of def_resolution are kept
\* apart, as the '\n'.join of lines 314-317 writes them
MissingVars_init(cls, missing_vars) ==
    LET cn == type_name(cls)
        num_fields == Len(missing_vars)
    IN  [NoError EXCEPT
            !.kind = "MissingVars",
            !.class_name = cn,
            !.fields = [i \in DOMAIN missing_vars |->
                            <<"    - ", missing_vars[i][1]>>],
            !.def_resolution =
                << <<"class ", cn, ":">> >> \o
                [i \in DOMAIN missing_vars |->
                    <<"    ", missing_vars[i][1], ": ", missing_vars[i][2],
                      " = ", missing_vars[i][3]>>],
            !.init_resolution =
                [i \in DOMAIN missing_vars |->
                    <<missing_vars[i][1], "=", missing_vars[i][3]>>],
            !.prefix =
                IF num_fields > 1
                   THEN Prefix("There are", num_fields, "required fields")
                   ELSE Prefix("There is", num_fields, "required field")]

MissingVars_message(e) ==
    Message("MissingVars",
            <<e.prefix, e.class_name, e.fields, e.def_resolution,
              e.init_resolution>>,
            "", <<>>)

MissingVarsArgs ==
    { [NoArgs EXCEPT !.kind = "MissingVars", !.cls = "cls:A",
                     !.missing_vars = mv] :
        mv \in UNION { [1..k -> VarTriples] : k \in 0..MaxVars } }

NewMissingVars ==
    /\ Drawn("MissingVars")
    /\ err' = MissingVars_init(eop.args.cls, eop.args.missing_vars)
    /\ eop' = Op("MissingVars", eop.args, PyNone, NoMessage)
    /\ UNCHANGED lvars

\* the message property of each kind, and the object it leaves behind
message(e) ==
    CASE e.kind = "ParseError"     -> ParseError_message(e)
      [] e.kind = "MissingData"    -> MissingData_message(e)
      [] e.kind = "MissingFields"  -> MissingFields_message(e)
      [] e.kind = "ExtraData"      -> ExtraData_message(e)
      [] e.kind = "UnknownJSONKey" -> UnknownJSONKey_message(e)
      [] e.kind = "MissingVars"    -> MissingVars_message(e)

AfterMessage(e) ==
    IF e.kind = "ParseError" THEN [e EXCEPT !.kwargs = ParseError_kwargs(e)]
                             ELSE e

ReadMessage ==
    /\ err.kind # "none"
    /\ err' = AfterMessage(err)
    /\ eop' = Op("message", eop.args, PyNone, message(err))
    /\ UNCHANGED lvars

\* the registry is left as Env starts, on one platform
InitErr ==
    /\ name = "posix"
    /\ environ = <<>>
    /\ var_names = {}
    /\ var_names_cached = FALSE
    /\ cleaned_to_env = <<>>
    /\ accessed = FALSE
    /\ last = Call("init", <<>>, {}, <<>>, NoRet, FALSE)
    /\ pc = "idle"
    /\ new_vars = {}
    /\ todo = {}
    /\ err = NoError
    /\ \E args \in ParseErrorArgs \cup MissingDataArgs \cup MissingFieldsArgs
                   \cup ExtraDataArgs \cup UnknownJSONKeyArgs
                   \cup MissingVarsArgs :
          eop = Op("args", args, PyNone, NoMessage)

NextErr ==
    \/ NewParseError
    \/ NewMissingData
    \/ NewMissingFields
    \/ NewExtraData
    \/ NewUnknownJSONKey
    \/ NewMissingVars
    \/ SetClassName
    \/ SetFieldName
    \/ SetJsonObject
    \/ ReadMessage

SpecErr == InitErr /\ [][NextErr]_vars

-----------------------------------------------------------------------------
(* What the claims speak of *)

LookupOps == {"lookup_exact", "try_cleaned", "with_screaming_snake_case",
              "with_snake_case", "with_pascal_or_camel_case"}

\* no name
None == <<>>

\* the names a lookup tries against names(), in the order of the documentation
Order(op, f) ==
    CASE op = "lookup_exact" -> IF name = "nt" THEN <<upper(f)>> ELSE <<f>>
      [] op = "with_screaming_snake_case" -> <<upper(f), f>>
      [] op = "with_snake_case" -> <<f, upper(f)>>
      [] op = "with_pascal_or_camel_case" ->
             <<f, upper(to_snake_case(f)), to_snake_case(f)>>
      [] OTHER -> <<>>

\* whether the lookup ends with the cleaned index
FallsBack(op) == op # "lookup_exact"

\* the first name of cands that is in names()
FirstKnown(cands) ==
    LET hits == { i \in 1..Len(cands) : cands[i] \in var_names }
    IN IF hits = {} THEN None
       ELSE cands[CHOOSE i \in hits : \A j \in hits : i <= j]

\* the name the lookup settles on: the first known candidate, else the entry
\* of the cleaned index for normalize(f), else none
Matched(op, f) ==
    IF FirstKnown(Order(op, f)) # None THEN FirstKnown(Order(op, f))
    ELSE IF FallsBack(op) /\ clean(f) \in DOMAIN cleaned_to_env
         THEN cleaned_to_env[clean(f)]
    ELSE None

\* the last call returned the value of variable n, if n is live; otherwise it
\* returned no value at all
ReturnedValueOf(n) ==
    IF n \in DOMAIN environ THEN last.ret = Found(environ[n])
    ELSE last.ret.tag # "str"

\* C1: overlay apply never overwrites a value that is already live: a key that
\* was live before update_with_dotenv keeps its value
C1_LiveValueKept ==
    [][last'.op = "update_with_dotenv" =>
          \A k \in DOMAIN environ \cap DOMAIN last'.overlay :
              environ'[k] = environ[k]]_vars

\* C2: names() never drops a name: once materialized, after every call and
\* every change of the live environment it is a superset of what it was
C2_NamesMonotonic ==
    [][var_names_cached => (var_names_cached' /\ var_names \subseteq var_names')]_vars

\* a reload has run while a cached name is no longer live
C2_Witness ==
    /\ last.op = "reload"
    /\ \E n \in var_names : n \notin DOMAIN environ

\* C3: no lookup raises: each returns a string or the missing marker
C3_NeverRaises == last.ret.tag # "KeyError"

\* C4: once the cleaned index is built, no reader sees a name of names()
\* whose normalized form is not a key of cleaned_index()
C4_NoTornIndex ==
    (accessed /\ last.op \in {"names", "cleaned_index"} \cup LookupOps)
        => \A n \in var_names : clean(n) \in DOMAIN cleaned_to_env

\* C5: after update_with_dotenv every key of the mapping is in names(), is
\* live, has its normalized form in the cleaned index if that was built before,
\* and a key that was not live before has the overlay's value
C5_OverlayVisible ==
    [][last'.op = "update_with_dotenv" =>
          \A k \in DOMAIN last'.overlay :
              /\ var_names_cached' /\ k \in var_names'
              /\ k \in DOMAIN environ'
              /\ accessed => clean(k) \in DOMAIN cleaned_to_env'
              /\ k \notin DOMAIN environ => environ'[k] = last'.overlay[k]]_vars

\* an overlay has been applied with the index built, and a key of it is the
\* index's entry and live with the overlay's value
C5_Witness ==
    /\ last.op = "update_with_dotenv"
    /\ accessed
    /\ \E k \in DOMAIN last.overlay :
          /\ cleaned_to_env[clean(k)] = k
          /\ environ[k] = "x"
          /\ last.overlay[k] = "x"

\* C6: a second reload with the same mapping, right after the first, changes
\* neither names() nor the cleaned index
C6_ReloadIdempotent ==
    [][(last'.op = "reload" /\ last'.rep) =>
          /\ var_names' = var_names
          /\ var_names_cached' = var_names_cached
          /\ cleaned_to_env' = cleaned_to_env
          /\ accessed' = accessed]_vars

\* reload has run twice in a row with the same non-empty mapping, index built
C6_Witness ==
    /\ last.op = "reload"
    /\ last.rep
    /\ Cardinality(last.keys) >= 2
    /\ accessed
    /\ cleaned_to_env # <<>>

\* C7: an empty value is a value: a lookup whose matched variable is live with
\* value "" returns "", and the missing marker is returned only when no
\* candidate matches
C7_EmptyIsValue ==
    last.op \in LookupOps =>
        LET m == Matched(last.op, last.field)
        IN /\ (m # None /\ m \in DOMAIN environ /\ environ[m] = "")
                 => last.ret = Found("")
           /\ last.ret = MISSING => m = None

\* a strategy fell back to the cleaned index and returned an empty value
C7_Witness ==
    /\ last.op = "with_screaming_snake_case"
    /\ FirstKnown(Order(last.op, last.field)) = None
    /\ last.ret = Found("")

\* C8: with_screaming_snake_case returns the value of the first known name
\* among f.upper(), f, cleaned-index(normalize(f)), else missing
C8_ScreamingOrder ==
    last.op = "with_screaming_snake_case" =>
        LET f == last.field
        IN IF upper(f) \in var_names THEN ReturnedValueOf(upper(f))
           ELSE IF f \in var_names THEN ReturnedValueOf(f)
           ELSE IF clean(f) \in DOMAIN cleaned_to_env
                THEN ReturnedValueOf(cleaned_to_env[clean(f)])
           ELSE last.ret = MISSING

\* both the upper-cased and the literal name are known, with different values,
\* and the upper-cased variable's value came back
C8_Witness ==
    /\ last.op = "with_screaming_snake_case"
    /\ {last.field, upper(last.field)} \subseteq var_names \cap DOMAIN environ
    /\ environ[last.field] # environ[upper(last.field)]
    /\ last.ret = Found(environ[upper(last.field)])

\* C9: with_pascal_or_camel_case returns the value of the first known name
\* among f, snake_case(f).upper(), snake_case(f), cleaned-index(normalize(f))
C9_PascalOrder ==
    last.op = "with_pascal_or_camel_case" =>
        LET m == Matched("with_pascal_or_camel_case", last.field)
        IN IF m = None THEN last.ret = MISSING ELSE ReturnedValueOf(m)

\* field aB with only A_B known returns A_B's value
C9_Witness ==
    /\ last.op = "with_pascal_or_camel_case"
    /\ last.field = <<"a", "B">>
    /\ var_names = { <<"A", "_", "B">> }
    /\ <<"A", "_", "B">> \in DOMAIN environ
    /\ last.ret = Found(environ[<<"A", "_", "B">>])

\* C10: lookup_exact compares the literal input against names() on a
\* case-preserving platform and the upper-cased input on a case-normalizing one
C10_ExactPlatformAware ==
    last.op = "lookup_exact" =>
        LET key == IF name = "nt" THEN upper(last.field) ELSE last.field
        IN IF key \in var_names THEN ReturnedValueOf(key)
           ELSE last.ret = MISSING

\* on the case-preserving platform Foo-like input a_b with only A_B known is
\* missing
C10_Witness ==
    /\ name = "posix"
    /\ last.op = "lookup_exact"
    /\ last.field = <<"a", "_", "b">>
    /\ var_names = { <<"A", "_", "B">> }
    /\ <<"A", "_", "B">> \in DOMAIN environ
    /\ last.ret = MISSING

\* C15: with_snake_case returns the value of the first known name among f,
\* f.upper(), cleaned-index(normalize(f)), else missing: the literal name wins
\* over the upper-cased one
C15_SnakeOrder ==
    last.op = "with_snake_case" =>
        LET f == last.field
        IN IF f \in var_names THEN ReturnedValueOf(f)
           ELSE IF upper(f) \in var_names THEN ReturnedValueOf(upper(f))
           ELSE IF clean(f) \in DOMAIN cleaned_to_env
                THEN ReturnedValueOf(cleaned_to_env[clean(f)])
           ELSE last.ret = MISSING

\* both the literal and the upper-cased name are known, with different values,
\* and the literal variable's value came back
C15_Witness ==
    /\ last.op = "with_snake_case"
    /\ {last.field, upper(last.field)} \subseteq var_names \cap DOMAIN environ
    /\ environ[last.field] # environ[upper(last.field)]
    /\ last.ret = Found(environ[last.field])

\* the index holds a key for every name, and every entry is a name under its
\* own normalized form
IndexComplete(names, idx) ==
    /\ \A n \in names : clean(n) \in DOMAIN idx
    /\ \A k \in DOMAIN idx : idx[k] \in names /\ clean(idx[k]) = k

\* C16: once built, the cleaned index stays complete and consistent with
\* names() and loses no key, whatever is called
C16_IndexGrows ==
    [][accessed' =>
          /\ IndexComplete(var_names', cleaned_to_env')
          /\ accessed => DOMAIN cleaned_to_env \subseteq DOMAIN cleaned_to_env']_vars

\* a reload has run with the index built, and the index covers several names
C16_Witness ==
    /\ accessed
    /\ last.op = "reload"
    /\ Cardinality(var_names) >= 2
    /\ DOMAIN cleaned_to_env = { clean(n) : n \in var_names }

\* C17: reload and update_with_dotenv leave an index that was never accessed
\* unbuilt, and the first access builds it over every name known then
C17_ReloadDoesNotBuild ==
    [][/\ (last'.op \in {"reload", "update_with_dotenv"} /\ ~accessed)
             => (~accessed' /\ cleaned_to_env' = cleaned_to_env)
       /\ (~accessed /\ accessed')
             => IndexComplete(var_names', cleaned_to_env')]_vars

\* the index has been accessed after a reload brought in a name that is not
\* live, and it holds that name's key
C17_Witness ==
    /\ accessed
    /\ last.op = "cleaned_index"
    /\ \E n \in var_names :
          n \notin DOMAIN environ /\ cleaned_to_env[clean(n)] = n

\* no name of names() is a candidate of the lookup of f
NoKnownName(op, f) ==
    /\ \A i \in 1..Len(Order(op, f)) : Order(op, f)[i] \notin var_names
    /\ FallsBack(op) => \A n \in var_names : clean(n) # clean(f)

\* C18: once names() is materialized, a change of the live environment does
\* not change it, a lookup that matches no cached name returns missing even if
\* a matching variable is live, and reload() brings every live name in
C18_NamesCached ==
    [][var_names_cached =>
          /\ last'.op \in {"setenv", "delenv"} => var_names' = var_names
          /\ last'.op \in LookupOps =>
                /\ var_names' = var_names
                /\ NoKnownName(last'.op, last'.field) => last'.ret = MISSING
          /\ (last'.op = "reload" /\ last'.keys = DOMAIN environ)
                => DOMAIN environ \subseteq var_names']_vars

\* a variable that is live but was added after names() was materialized is
\* looked up by its exact name and is missing
C18_Witness ==
    /\ name = "posix"
    /\ var_names_cached
    /\ last.op = "lookup_exact"
    /\ last.field \in DOMAIN environ
    /\ last.field \notin var_names
    /\ last.ret = MISSING

\* the name lookup_exact compares against names() for the input v
ExactKey(v) == IF name = "nt" THEN upper(v) ELSE v

\* C19: lookup_exact with a sequence returns the live value of the first name
\* of the sequence that is in names(), and missing only if none is
C19_FirstHitWins ==
    last.op = "lookup_exact_collection" =>
        LET var == last.field
            hits == { i \in 1..Len(var) : ExactKey(var[i]) \in var_names }
        IN IF hits = {} THEN last.ret = MISSING
           ELSE ReturnedValueOf(ExactKey(var[CHOOSE i \in hits : \A j \in hits : i <= j]))

\* both names of <<A_B, a_b>> are known, with different values, and the first
\* one's value came back
C19_Witness ==
    /\ last.op = "lookup_exact_collection"
    /\ last.field = << <<"A", "_", "B">>, <<"a", "_", "b">> >>
    /\ {last.field[1], last.field[2]} \subseteq var_names \cap DOMAIN environ
    /\ environ[last.field[1]] # environ[last.field[2]]
    /\ last.ret = Found(environ[last.field[1]])

-----------------------------------------------------------------------------
(* The diagnostics of errors.py *)

ParseErrorKinds == {"ParseError", "MissingData"}

\* C20: the context attributes of a ParseError are set-once.  field_name and
\* json_object start as the constructor's value; once either is not None no
\* assignment changes it, and while it is None an assignment takes effect.
\* class_name reads as the constructor's default class while no class has been
\* assigned through the setter; the first class assigned is read back from then
\* on and later assignments are ignored.
C20_SetOnce ==
    [][/\ eop'.op \in ParseErrorKinds =>
             /\ err'._field_name = eop'.args._field_name
             /\ err'._json_object = eop'.args._json_object
             /\ err'._class_name = PyNone
             /\ class_name(err') =
                   IF eop'.args._default_class = PyNone
                      THEN PyNone
                      ELSE type_name(eop'.args._default_class)
       /\ err.kind \in ParseErrorKinds =>
             /\ err._field_name # PyNone => err'._field_name = err._field_name
             /\ err._json_object # PyNone => err'._json_object = err._json_object
             /\ err._class_name # PyNone =>
                   /\ err'._class_name = err._class_name
                   /\ class_name(err') = err._class_name
             /\ err'._default_class_name = err._default_class_name
             /\ err'._field_name =
                   IF err._field_name = PyNone /\ eop'.op = "set_field_name"
                      THEN eop'.val ELSE err._field_name
             /\ err'._json_object =
                   IF err._json_object = PyNone /\ eop'.op = "set_json_object"
                      THEN eop'.val ELSE err._json_object
             /\ IF err._class_name = PyNone
                   THEN IF eop'.op = "set_class_name"
                           THEN /\ err'._class_name # PyNone
                                /\ class_name(err') = err'._class_name
                           ELSE /\ err'._class_name = PyNone
                                /\ class_name(err') = err._default_class_name
                   ELSE TRUE]_vars

\* a later assignment of another value was ignored, for each of the three
C20_Witness ==
    /\ err.kind = "ParseError"
    /\ eop.args._field_name = "f" /\ err._field_name = "f"
    /\ err._json_object = "{b}"
    /\ err._default_class_name = "A" /\ class_name(err) = "B"
    /\ eop.op = "set_class_name" /\ eop.val = "cls:A"

\* C14: reading message changes nothing of the error object, and two reads
\* in a row return the same message.
C14_MessageStable ==
    [][eop'.op = "message" =>
          /\ err' = err
          /\ eop.op = "message" => eop'.msg = eop.msg]_vars

\* C13: for N missing fields the headline of MissingVars is "There are N
\* required fields" when N > 1 and is the singular "There is N required field"
\* only when N = 1; the report has one itemized name line and one default-value
\* code line per missing field, in the given order.
C13_Pluralized ==
    err.kind = "MissingVars" =>
        LET mv == eop.args.missing_vars
            N == Len(mv)
        IN  /\ N > 1 => err.prefix = Prefix("There are", N, "required fields")
            /\ err.prefix.verb = "There is" =>
                  /\ N = 1
                  /\ err.prefix = Prefix("There is", N, "required field")
            /\ Len(err.fields) = N
            /\ Len(err.def_resolution) = N + 1
            /\ \A i \in 1..N :
                  /\ err.fields[i][2] = mv[i][1]
                  /\ err.def_resolution[i + 1][2] = mv[i][1]
                  /\ err.def_resolution[i + 1][6] = mv[i][3]

\* the declared fields that are required: no default and no default factory
Required(cls_fields) ==
    { cls_fields[i].name : i \in
        { j \in DOMAIN cls_fields :
            /\ cls_fields[j].default = "MISSING"
            /\ cls_fields[j].default_factory = "MISSING" } }

\* where a name is declared
DeclaredAt(cls_fields, n) == CHOOSE i \in DOMAIN cls_fields : cls_fields[i].name = n

\* d without the entries of the keys ks
Without(d, ks) == SelectSeq(d, LAMBDA kv : kv[1] \notin ks)

HintKeys == {"key transform", "resolution"}

\* some missing field and some key of the input object normalize alike
Collides(missing, obj) ==
    \E f \in Range(missing), key \in Range(obj) : normalize(f) = normalize(key)

\* C12: missing_fields is exactly the declared fields with no default and no
\* default factory whose name is not, as an exact string, among the supplied
\* keyword names, in declaration order; the debug context carries the
\* 'key transform' and 'resolution' hints (after the caller's own entries when
\* the caller gave neither key) if and only if some missing field and some key
\* of the input object have the same normalized form, and is the caller's
\* context otherwise.
C12_MissingExact ==
    err.kind = "MissingFields" =>
        LET a == eop.args
            m == err.missing_fields
        IN  /\ Range(m) = Required(a.cls_fields) \ Range(a.cls_kwargs)
            /\ \A i, j \in DOMAIN m :
                  i < j => DeclaredAt(a.cls_fields, m[i])
                              < DeclaredAt(a.cls_fields, m[j])
            /\ IF Collides(m, a.obj)
                  THEN /\ HintKeys \subseteq DictKeys(err.kwargs)
                       /\ DictGet(err.kwargs, "key transform") = KeyTransformHint
                       /\ DictGet(err.kwargs, "resolution") = ResolutionHint
                       /\ Without(err.kwargs, HintKeys) = Without(a.kwargs, HintKeys)
                       /\ DictKeys(a.kwargs) \cap HintKeys = {} =>
                             err.kwargs = a.kwargs \o
                                 << <<"key transform", KeyTransformHint>>,
                                    <<"resolution", ResolutionHint>> >>
                  ELSE err.kwargs = a.kwargs

\* two fields are missing in declaration order beside one excused by its
\* factory, and the hint follows the caller's entry
C12_Witness ==
    /\ err.kind = "MissingFields"
    /\ Len(eop.args.cls_fields) = 2
    /\ \E i \in DOMAIN eop.args.cls_fields :
          /\ eop.args.cls_fields[i].default_factory # "MISSING"
          /\ eop.args.cls_fields[i].name \notin Range(eop.args.cls_kwargs)
    /\ Len(err.missing_fields) = 1
    /\ Collides(err.missing_fields, eop.args.obj)
    /\ Len(eop.args.kwargs) = 1
    /\ Len(err.kwargs) = 3

\* C11 as stated: a required field whose normalized form equals that of a
\* supplied key is not listed among the missing fields.
C11_CollidingFieldNotMissing ==
    err.kind = "MissingFields" =>
        \A f \in Range(err.missing_fields) :
            \A key \in Range(eop.args.obj) \cup Range(eop.args.cls_kwargs) :
                normalize(f) # normalize(key)

my_env_var == <<"a", "_", "b">>
myEnvVar == <<"a", "B">>
other == <<"c">>

\* the call of the example: supplied {"myEnvVar": 1} and no other keyword,
\* required my_env_var, other
C11_Example ==
    /\ eop.args.obj = <<myEnvVar>>
    /\ Range(eop.args.cls_kwargs) \subseteq {myEnvVar}
    /\ Names(eop.args.cls_fields) = <<my_env_var, other>>
    /\ Required(eop.args.cls_fields) = {my_env_var, other}

\* C11, amended: a required field is listed as missing whenever its exact name
\* is not among the supplied keyword names, also when its normalized form
\* equals that of a supplied key, and when that key is a key of the input
\* object the context carries the naming-transform hint; the example reports
\* my_env_var and other, in that order, with the hint.
C11_CollidingFieldStillMissing ==
    err.kind = "MissingFields" =>
        /\ \A f \in Required(eop.args.cls_fields) \ Range(eop.args.cls_kwargs) :
              /\ f \in Range(err.missing_fields)
              /\ (\E key \in Range(eop.args.obj) : normalize(f) = normalize(key))
                    => /\ HintKeys \subseteq DictKeys(err.kwargs)
                       /\ DictGet(err.kwargs, "resolution") = ResolutionHint
        /\ C11_Example =>
              /\ err.missing_fields = <<my_env_var, other>>
              /\ DictGet(err.kwargs, "key transform") = KeyTransformHint

C11_Witness ==
    /\ err.kind = "MissingFields"
    /\ C11_Example
    /\ eop.args.cls_kwargs = <<myEnvVar>>
    /\ err.missing_fields = <<my_env_var, other>>
    /\ eop.op = "message"
    /\ "key transform" \in DictKeys(eop.msg.parts)

=============================================================================
